---------------------------- MODULE Spec2Model ----------------------------
(***************************************************************************)
(* Naive Bayes tweet classifier (naive_bayes_tweet_classifier notebook).   *)
(*                                                                         *)
(* The notebook keeps its model in global dictionaries.  The cells are     *)
(* the operations:                                                         *)
(*   cell 2   builds the empty tables               (Init)                 *)
(*   cell 4   training loop over zip(data, labels)  (RunTrainCell,         *)
(*            TrainNextDoc, TrainWord, TrainDone)                          *)
(*   cell 9   derives word_probabilities_per_candidate (DeriveCell)        *)
(*   cell 12  priors, prediction loop, outcomes     (RunEvalCell,          *)
(*            EvalNextDoc, EvalDone)                                       *)
(*   cell 14  accuracy                              (AccuracyCell)         *)
(*                                                                         *)
(* A character is a one-character string, a line of text a sequence of     *)
(* characters, a token a non-empty sequence of word characters.  A python  *)
(* dict is a function whose DOMAIN is its key set.  The counts are python  *)
(* floats holding small whole numbers and are modelled as integers; a      *)
(* quotient of two of them is the pair <<numerator, denominator>>.         *)
(***************************************************************************)
EXTENDS Integers, Sequences, FiniteSets, TLC

\* ------------------------------------------------------------------ bounds
\* lines in each training file
MaxLines == 3
\* executions of the training cell on one set of tables
MaxFits == 2
\* (tweet, label) pairs in the test files
MaxTestLines == 2
\* words in one line of a data file
MaxTokens == 2
\* characters in the sample tweet of cell 3
MaxSampleLen == 4

\* ------------------------------------------------------- program constants
SMOOTHING == 1

Candidates == {"trump", "hillary"}

\* LABEL_MAP = {'0\n': 'hillary', '1\n': 'trump'}
LABEL_MAP == [l \in {"0\n", "1\n"} |-> IF l = "0\n" THEN "hillary" ELSE "trump"]

\* ---------------------------------------------------------------- tokenizer
UpperCase == << "A", "B", "C", "D", "E", "F", "G", "H", "I", "J", "K", "L", "M",
                "N", "O", "P", "Q", "R", "S", "T", "U", "V", "W", "X", "Y", "Z" >>

LowerCase == << "a", "b", "c", "d", "e", "f", "g", "h", "i", "j", "k", "l", "m",
                "n", "o", "p", "q", "r", "s", "t", "u", "v", "w", "x", "y", "z" >>

Digits == {"0", "1", "2", "3", "4", "5", "6", "7", "8", "9"}

\* Two characters have no TLA+ string literal: each is the string of its
\* Python escape.
\* the grave accent, chr(96)
GraveAccent == "\\x60"
\* the vertical tab, chr(11)
VerticalTab == "\\x0b"

\* string.punctuation, 32 characters
Punctuation == {"!", "\"", "#", "$", "%", "&", "'", "(", ")", "*", "+", ",", "-",
                ".", "/", ":", ";", "<", "=", ">", "?", "@", "[", "\\", "]", "^",
                "_", GraveAccent, "{", "|", "}", "~"}

\* what str.strip() removes: string.whitespace, 6 characters
Whitespace == {" ", "\t", "\n", VerticalTab, "\f", "\r"}

UpperCaseChars == {UpperCase[i] : i \in DOMAIN UpperCase}

\* \w of the re module: [a-zA-Z0-9_]
WordChars ==
    UpperCaseChars \cup {LowerCase[i] : i \in DOMAIN LowerCase} \cup Digits \cup {"_"}

IsWordChar(c) == c \in WordChars

LowerChar(c) ==
    IF c \in UpperCaseChars
    THEN LowerCase[CHOOSE i \in DOMAIN UpperCase : UpperCase[i] = c]
    ELSE c

IsPunctuation(c) == c \in Punctuation

\* a faulty remove_punctuation: a blank takes the place of each punctuation
\* character
remove_punctuationAsBlank(input_str) ==
    [i \in 1..Len(input_str) |->
        IF IsPunctuation(input_str[i]) THEN " " ELSE input_str[i]]

\* input_str.translate(table, string.punctuation): the punctuation is deleted
remove_punctuation(input_str) == SelectSeq(input_str, LAMBDA c : ~IsPunctuation(c))

lower(s) == [i \in 1..Len(s) |-> LowerChar(s[i])]

RECURSIVE lstrip(_)
lstrip(s) ==
    IF s # << >> /\ Head(s) \in Whitespace THEN lstrip(Tail(s)) ELSE s

RECURSIVE rstrip(_)
rstrip(s) ==
    IF s # << >> /\ s[Len(s)] \in Whitespace
    THEN rstrip(SubSeq(s, 1, Len(s) - 1))
    ELSE s

strip(s) == rstrip(lstrip(s))

\* re.split("\W+", line): the maximal runs of word characters, in order, with
\* an empty piece in front when the line starts with a non-word character and
\* one behind when it ends with one; the empty line gives one empty piece.
re_split(line) ==
    LET n == Len(line)
        starts == {i \in 1..n : /\ IsWordChar(line[i])
                                /\ (i = 1 \/ ~IsWordChar(line[i - 1]))}
        EndOf(i) == CHOOSE j \in i..n :
                        /\ \A k \in i..j : IsWordChar(line[k])
                        /\ (j = n \/ ~IsWordChar(line[j + 1]))
        Nth(k) == CHOOSE i \in starts : Cardinality({j \in starts : j < i}) = k - 1
        runs == [k \in 1..Cardinality(starts) |->
                    SubSeq(line, Nth(k), EndOf(Nth(k)))]
        leading == IF ~IsWordChar(line[1]) THEN << << >> >> ELSE << >>
        trailing == IF ~IsWordChar(line[n]) THEN << << >> >> ELSE << >>
    IN  IF n = 0 THEN << << >> >> ELSE leading \o runs \o trailing

tokenize(line) ==
    SelectSeq(re_split(strip(lower(remove_punctuation(line)))),
              LAMBDA token : token # << >>)

\* ------------------------------------------------------------------- inputs
\* the lines a data file may hold
TweetLines == { << "B", " ", "a", "\n" >>,
                << "A", ",", " ", "a", "!", "\n" >>,
                << "a", "-", "-", "b", "\n" >>,
                << "\n" >> }

Tweets == {t \in TweetLines : Len(tokenize(t)) <= MaxTokens}

\* the lines a label file may hold; "1" is a last line with no newline
LabelLines == {"0\n", "1\n", "1"}

\* --------------------------------------------------------------- dictionaries
EmptyDict == << >>

\* d[k] = v
Put(d, k, v) == [x \in (DOMAIN d) \cup {k} |-> IF x = k THEN v ELSE d[x]]

\* sum(d.values()) of a dict of numbers
RECURSIVE SumOver(_, _)
SumOver(d, keys) ==
    IF keys = {} THEN 0
    ELSE LET k == CHOOSE x \in keys : TRUE
         IN  d[k] + SumOver(d, keys \ {k})

SumValues(d) == SumOver(d, DOMAIN d)

\* ------------------------------------------------------------------ math.log
\* No count of the model exceeds MaxValue, so every number whose logarithm is
\* taken factors over Primes.
MaxValue == SMOOTHING + MaxFits * MaxLines * MaxTokens + 2

IsPrime(n) == n >= 2 /\ \A q \in 2..(n - 1) : n % q # 0

\* the primes from n to MaxValue, in increasing order
RECURSIVE PrimesFrom(_)
PrimesFrom(n) ==
    IF n > MaxValue THEN << >>
    ELSE (IF IsPrime(n) THEN << n >> ELSE << >>) \o PrimesFrom(n + 1)

Primes == PrimesFrom(2)

\* the multiplicity of the prime p in n > 0
RECURSIVE Multiplicity(_, _)
Multiplicity(p, n) == IF n % p = 0 THEN 1 + Multiplicity(p, n \div p) ELSE 0

\* log(n / d) for n, d > 0 is the sum over the primes p of
\* (Multiplicity(p, n) - Multiplicity(p, d)) * log(p), and the logarithms of the
\* primes are linearly independent over the rationals: the real value of a
\* logarithm is the sequence of its coefficients, one for each prime of Primes,
\* added and subtracted coordinate by coordinate.
RECURSIVE LogOver(_, _)
LogOver(q, ps) ==
    IF ps = << >> THEN << >>
    ELSE << Multiplicity(Head(ps), q[1]) - Multiplicity(Head(ps), q[2]) >>
         \o LogOver(q, Tail(ps))

RECURSIVE Sum(_, _)
Sum(x, y) ==
    IF x = << >> THEN << >> ELSE << Head(x) + Head(y) >> \o Sum(Tail(x), Tail(y))

RECURSIVE Difference(_, _)
Difference(x, y) ==
    IF x = << >> THEN << >>
    ELSE << Head(x) - Head(y) >> \o Difference(Tail(x), Tail(y))

\* A float of the evaluation is the real number its computation stands for
\* (real) and its rounding error (err), in units of its last bit.  Two floats
\* with different reals are ordered as the reals are: the reals are logarithms
\* of different rationals of small numerator and denominator, which lie
\* further apart than any rounding error.  Two floats with the same real are
\* ordered by their rounding errors.
log(q) == [real |-> LogOver(q, Primes), err |-> 0]

\* 0.0
Zero == log(<< 1, 1 >>)

Plus(x, y) == [real |-> Sum(x.real, y.real), err |-> x.err + y.err]

Minus(x, y) == [real |-> Difference(x.real, y.real), err |-> x.err - y.err]

\* the float x, off by e more units
Rounded(x, e) == [x EXCEPT !.err = @ + e]

RECURSIVE Power(_, _)
Power(b, e) == IF e = 0 THEN 1 ELSE b * Power(b, e - 1)

\* the product of ps[i]^e[i] over the coordinates with e[i] > 0
RECURSIVE ProductOfPowers(_, _)
ProductOfPowers(e, ps) ==
    IF ps = << >> THEN 1
    ELSE (IF Head(e) > 0 THEN Power(Head(ps), Head(e)) ELSE 1)
         * ProductOfPowers(Tail(e), Tail(ps))

\* x >= y for two floats: exp(x - y) >= 1 when the reals differ, the order of
\* the rounding errors when they are equal
Geq(x, y) ==
    IF x.real = y.real
    THEN x.err >= y.err
    ELSE ProductOfPowers(Difference(x.real, y.real), Primes)
            >= ProductOfPowers(Difference(y.real, x.real), Primes)

\* -------------------------------------------------------------------- state
VARIABLES
    pc,                                 \* the cell being run, or the state between cells
    error,                              \* the exception that stopped the run, or "none"
    fit_runs,                           \* executions of the training cell so far
    vocabulary,                         \* word -> count over all tweets
    word_counts_per_candidate,          \* candidate -> word -> count
    total_tweet_count,                  \* candidate -> number of tweets
    word_probabilities_per_candidate,   \* candidate -> word -> <<count, denominator>>
    data_lines, label_lines,            \* lines of the two training files
    line,                               \* pairs zip(data, labels) has produced
    label,                              \* the label of the tweet being counted
    tokens,                             \* the words of that tweet not yet counted
    outcomes,                           \* <<guess, correct label>> -> count
    log_prior_trump, log_prior_hillary,
    test_line,                          \* pairs zip(test_data, test_labels) has produced
    test_tokens, test_label,
    log_p_tweet_given_trump, log_p_tweet_given_hillary,
    p_trump_given_tweet, p_hillary_given_tweet,
    guess,                              \* the branch of the decision taken last
    accuracy,
    sample_tweet, sample_tokens,        \* cell 3: sample_tokens = tokenize(sample_tweet)
    processed                           \* history: how often the training loop took
                                        \* each (tweet, label) from zip(data, labels)

model == << vocabulary, word_counts_per_candidate, total_tweet_count,
            word_probabilities_per_candidate >>

train_locals == << data_lines, label_lines, line, label, tokens >>

eval_locals == << test_tokens, test_label, log_p_tweet_given_trump,
                  log_p_tweet_given_hillary, p_trump_given_tweet,
                  p_hillary_given_tweet, guess >>

priors == << log_prior_trump, log_prior_hillary >>

sample_vars == << sample_tweet, sample_tokens >>

vars == << pc, error, fit_runs, model, train_locals, outcomes, priors,
           test_line, eval_locals, accuracy, sample_vars, processed >>

\* a name no cell has assigned yet
Unbound == << >>

Min(a, b) == IF a <= b THEN a ELSE b

\* cells 1 and 2 have run
CellsOneAndTwo ==
    /\ pc = "idle"
    /\ error = "none"
    /\ fit_runs = 0
    /\ vocabulary = EmptyDict
    /\ word_counts_per_candidate = [c \in Candidates |-> EmptyDict]
    /\ total_tweet_count = [c \in Candidates |-> 0]
    /\ word_probabilities_per_candidate = Unbound
    /\ data_lines = 0
    /\ label_lines = 0
    /\ line = 0
    /\ label = Unbound
    /\ tokens = << >>
    /\ outcomes = Unbound
    /\ log_prior_trump = Unbound
    /\ log_prior_hillary = Unbound
    /\ test_line = 0
    /\ test_tokens = Unbound
    /\ test_label = Unbound
    /\ log_p_tweet_given_trump = Unbound
    /\ log_p_tweet_given_hillary = Unbound
    /\ p_trump_given_tweet = Unbound
    /\ p_hillary_given_tweet = Unbound
    /\ guess = "none"
    /\ accuracy = Unbound
    /\ processed = [doc \in Tweets \X DOMAIN LABEL_MAP |-> 0]

\* cell 3 has not run
Init ==
    /\ CellsOneAndTwo
    /\ sample_tweet = Unbound
    /\ sample_tokens = Unbound

\* ------------------------------------------------------- cell 3: the sample
\* the tweet of the notebook
SampleTweet ==
    << "I", " ", "a", "m", " ", "g", "r", "o", "w", "i", "n", "g", " ", "t",
       "h", "e", " ", "R", "e", "p", "u", "b", "l", "i", "c", "a", "n", " ",
       "P", "a", "r", "t", "y", " ", "t", "r", "e", "m", "e", "n", "d", "o",
       "u", "s", "l", "y", " ", "-", " ", "j", "u", "s", "t", " ", "l", "o",
       "o", "k", " ", "a", "t", " ", "t", "h", "e", " ", "n", "u", "m", "b",
       "e", "r", "s", ",", " ", "w", "a", "y", " ", "u", "p", "!", " ", "D",
       "e", "m", "o", "c", "r", "a", "t", "s", " ", "n", "u", "m", "b", "e",
       "r", "s", " ", "a", "r", "e", " ", "s", "i", "g", "n", "i", "f", "i",
       "c", "a", "n", "t", "l", "y", " ", "d", "o", "w", "n", " ", "f", "r",
       "o", "m", " ", "y", "e", "a", "r", "s", " ", "p", "a", "s", "t", "." >>

\* sample_tweet = tweet; sample_tokens = tokenize(sample_tweet)
SampleCellOn(tweet) ==
    /\ pc = "idle"
    /\ error = "none"
    /\ sample_tweet' = tweet
    /\ sample_tokens' = tokenize(tweet)
    /\ pc' = "sampled"
    /\ UNCHANGED << error, fit_runs, model, train_locals, outcomes, priors,
                    test_line, eval_locals, accuracy, processed >>

SampleCell == SampleCellOn(SampleTweet)

\* ------------------------------------------------------------ cell 4: training
\* with open(TRAIN_DATA_PATH) as data, open(TRAIN_LABELS_PATH) as labels:
\* the cell starts on whatever the tables hold
OpenTrainFiles ==
    /\ error = "none"
    /\ fit_runs < MaxFits
    /\ fit_runs' = fit_runs + 1
    /\ \E n \in 0..MaxLines, m \in 0..MaxLines :
          /\ data_lines' = n
          /\ label_lines' = m
    /\ line' = 0
    /\ tokens' = << >>
    /\ pc' = "train"
    /\ UNCHANGED << error, model, label, outcomes, priors, test_line,
                    eval_locals, accuracy >>
    /\ UNCHANGED << sample_vars, processed >>

\* the cell's first run, on the tables of cell 2
RunTrainCell ==
    /\ pc = "sampled"
    /\ OpenTrainFiles

\* the cell is run again on the same kernel, after a training that completed
RerunTrainCell ==
    /\ pc = "trained"
    /\ OpenTrainFiles

\* the pairs zip(data, labels) yields: as many as the shorter file has lines
ZipLength(n, m) == Min(n, m)

\* for tweet, label in zip(data, labels):
\*     total_tweet_count[LABEL_MAP[label]] += 1.0
\*     tokens = tokenize(tweet)
TrainNextDoc ==
    /\ pc = "train"
    /\ error = "none"
    /\ tokens = << >>
    /\ line < ZipLength(data_lines, label_lines)
    /\ line' = line + 1
    /\ \E tweet \in Tweets, lab \in LabelLines :
          /\ label' = lab
          /\ IF lab \in DOMAIN LABEL_MAP
             THEN /\ total_tweet_count' =
                         [total_tweet_count EXCEPT ![LABEL_MAP[lab]] = @ + 1]
                  /\ tokens' = tokenize(tweet)
                  /\ error' = error
                  /\ processed' = [processed EXCEPT ![<< tweet, lab >>] = @ + 1]
             ELSE /\ error' = "KeyError"
                  /\ UNCHANGED << total_tweet_count, tokens, processed >>
    /\ UNCHANGED << pc, fit_runs, vocabulary, word_counts_per_candidate,
                    word_probabilities_per_candidate, data_lines, label_lines,
                    outcomes, priors, test_line, eval_locals, accuracy >>
    /\ UNCHANGED sample_vars

\* a faulty FirstSight: the word enters the tables with counts of 0
FirstSightNoSmoothing(word, voc, counts) ==
    IF word \in DOMAIN voc
    THEN [vocabulary |-> voc, word_counts |-> counts]
    ELSE [vocabulary |-> Put(voc, word, 0),
          word_counts |-> [c \in Candidates |-> Put(counts[c], word, 0)]]

\* if word not in vocabulary: the word enters the vocabulary and both
\* candidates' tables with the smoothing counts
FirstSight(word, voc, counts) ==
    IF word \in DOMAIN voc
    THEN [vocabulary |-> voc, word_counts |-> counts]
    ELSE [vocabulary |-> Put(voc, word, 2 * SMOOTHING),
          word_counts |-> [c \in Candidates |-> Put(counts[c], word, SMOOTHING)]]

\* a faulty CountWord: only the occurrence that brought the word into the
\* vocabulary is counted
CountWordFirstOnly(word, candidate, voc, counts) ==
    IF voc[word] = 2 * SMOOTHING
    THEN [vocabulary |-> [voc EXCEPT ![word] = @ + 1],
          word_counts |-> [counts EXCEPT ![candidate][word] = @ + 1]]
    ELSE [vocabulary |-> voc, word_counts |-> counts]

\* vocabulary[word] += 1
\* word_counts_per_candidate[LABEL_MAP[label]][word] += 1
CountWord(word, candidate, voc, counts) ==
    [vocabulary |-> [voc EXCEPT ![word] = @ + 1],
     word_counts |-> [counts EXCEPT ![candidate][word] = @ + 1]]

\* one pass of "for word in tokens"
TrainWord ==
    /\ pc = "train"
    /\ error = "none"
    /\ tokens # << >>
    /\ LET word == Head(tokens)
           seen == FirstSight(word, vocabulary, word_counts_per_candidate)
           new == CountWord(word, LABEL_MAP[label], seen.vocabulary, seen.word_counts)
       IN  /\ vocabulary' = new.vocabulary
           /\ word_counts_per_candidate' = new.word_counts
    /\ tokens' = Tail(tokens)
    /\ UNCHANGED << pc, error, fit_runs, total_tweet_count,
                    word_probabilities_per_candidate, data_lines, label_lines,
                    line, label, outcomes, priors, test_line, eval_locals,
                    accuracy >>
    /\ UNCHANGED << sample_vars, processed >>

\* zip(data, labels) is exhausted: the cell ends
TrainDone ==
    /\ pc = "train"
    /\ error = "none"
    /\ tokens = << >>
    /\ line = ZipLength(data_lines, label_lines)
    /\ pc' = "derive"
    /\ UNCHANGED << error, fit_runs, model, train_locals, outcomes, priors,
                    test_line, eval_locals, accuracy >>
    /\ UNCHANGED << sample_vars, processed >>

\* ------------------------------------------------- cell 9: word probabilities
\* a faulty WordProbabilities: the denominator counts the tweets of both candidates
WordProbabilitiesOverAllTweets(counts, totals) ==
    [c \in DOMAIN counts |->
        [w \in DOMAIN counts[c] |-> << counts[c][w], SumValues(totals) + 2 >>]]

\* count / (total_tweet_count[candidate] + 2), for every candidate and every
\* word of its table
WordProbabilities(counts, totals) ==
    [c \in DOMAIN counts |->
        [w \in DOMAIN counts[c] |-> << counts[c][w], totals[c] + 2 >>]]

DeriveCell ==
    /\ pc = "derive"
    /\ error = "none"
    /\ word_probabilities_per_candidate' =
           WordProbabilities(word_counts_per_candidate, total_tweet_count)
    /\ pc' = "trained"
    /\ UNCHANGED << error, fit_runs, vocabulary, word_counts_per_candidate,
                    total_tweet_count, train_locals, outcomes, priors,
                    test_line, eval_locals, accuracy >>
    /\ UNCHANGED << sample_vars, processed >>

\* ----------------------------------------------------- cell 12: evaluation
\* outcomes = {("trump", "trump"): 0.0, ("trump", "hillary"): 0.0, ...}
NoOutcomes == [k \in Candidates \X Candidates |-> 0]

\* prior_trump = total_tweet_count['trump'] / sum(total_tweet_count.values())
\* prior_hillary = ...; log_prior_trump = log(prior_trump); log_prior_hillary = ...
RunEvalCell ==
    /\ pc = "trained"
    /\ error = "none"
    /\ outcomes' = NoOutcomes
    /\ LET total == SumValues(total_tweet_count)
       IN  IF total = 0
           THEN /\ error' = "ZeroDivisionError"
                /\ UNCHANGED << pc, priors, test_line >>
           ELSE IF total_tweet_count["trump"] = 0
           THEN /\ error' = "ValueError"
                /\ UNCHANGED << pc, priors, test_line >>
           ELSE IF total_tweet_count["hillary"] = 0
           THEN /\ error' = "ValueError"
                /\ log_prior_trump' = log(<< total_tweet_count["trump"], total >>)
                /\ UNCHANGED << pc, log_prior_hillary, test_line >>
           ELSE /\ log_prior_trump' = log(<< total_tweet_count["trump"], total >>)
                /\ log_prior_hillary' = log(<< total_tweet_count["hillary"], total >>)
                /\ test_line' = 0
                /\ pc' = "eval"
                /\ error' = error
    /\ UNCHANGED << fit_runs, model, train_locals, eval_locals, accuracy >>
    /\ UNCHANGED << sample_vars, processed >>

\* the exception the loop over test_tokens raises, or "none": a vocabulary word
\* missing from a probability table, or the logarithm of a probability of 0
RECURSIVE WordLoopError(_, _, _)
WordLoopError(toks, voc, probs) ==
    IF toks = << >> THEN "none"
    ELSE LET token == Head(toks)
         IN  IF token \notin DOMAIN voc THEN WordLoopError(Tail(toks), voc, probs)
             ELSE IF token \notin DOMAIN probs["trump"] THEN "KeyError"
             ELSE IF probs["trump"][token][1] <= 0 THEN "ValueError"
             ELSE IF token \notin DOMAIN probs["hillary"] THEN "KeyError"
             ELSE IF probs["hillary"][token][1] <= 0 THEN "ValueError"
             ELSE WordLoopError(Tail(toks), voc, probs)

\* a faulty LogPTweetGiven: a word outside the vocabulary counts as one of
\* probability 1/2
RECURSIVE LogPTweetGivenNoSkip(_, _, _)
LogPTweetGivenNoSkip(toks, voc, probs) ==
    IF toks = << >> THEN Zero
    ELSE LET token == Head(toks)
             rest == LogPTweetGivenNoSkip(Tail(toks), voc, probs)
         IN  IF token \in DOMAIN voc
             THEN Plus(log(probs[token]), rest)
             ELSE Plus(log(<< 1, 2 >>), rest)

\* for token in test_tokens: if token in vocabulary: the logarithm of the word's
\* probability is added; else: pass
RECURSIVE LogPTweetGiven(_, _, _)
LogPTweetGiven(toks, voc, probs) ==
    IF toks = << >> THEN Zero
    ELSE LET token == Head(toks)
             rest == LogPTweetGiven(Tail(toks), voc, probs)
         IN  IF token \in DOMAIN voc
             THEN Plus(log(probs[token]), rest)
             ELSE rest

\* the floats the word loop adds to log_p_tweet_given_<candidate>, in order: the
\* logarithms of the probabilities of the known tokens.  A probability of 1 is
\* left out: its logarithm is 0.0 and x + 0.0 is x.
RECURSIVE LogTerms(_, _, _)
LogTerms(toks, voc, probs) ==
    IF toks = << >> THEN << >>
    ELSE LET token == Head(toks)
             rest == LogTerms(Tail(toks), voc, probs)
         IN  IF token \in DOMAIN voc /\ log(probs[token]) # Zero
             THEN << log(probs[token]) >> \o rest
             ELSE rest

\* the two sums are the same float whatever the build: the same terms in the
\* same order, or two terms in either order (float addition is commutative,
\* and 0.0 + x is x)
SameSum(terms_t, terms_h) ==
    \/ terms_t = terms_h
    \/ /\ Len(terms_t) = 2
       /\ Len(terms_h) = 2
       /\ terms_t[1] = terms_h[2]
       /\ terms_t[2] = terms_h[1]

\* By how much the rounding errors of log_prior_hillary + log_p_tweet_given_hillary
\* and of log_prior_trump + log_p_tweet_given_trump can differ where that decides
\* the comparison, that is, when the two reals are equal.  math.log is the
\* platform's C log, which rounds its last bit differently from one libm to the
\* next: two equal reals computed from different operands come out as equal
\* floats or one bit apart, either way round, depending on the build.  Computed
\* from the same operands they are the same float.
RoundingErrors(prior_t, prior_h, terms_t, terms_h, real_t, real_h) ==
    IF real_t # real_h THEN {0}
    ELSE IF prior_t = prior_h /\ SameSum(terms_t, terms_h) THEN {0}
    ELSE {-1, 0, 1}

\* the tokens the word loop went through before it raised
RECURSIVE TokensBeforeError(_, _, _)
TokensBeforeError(toks, voc, probs) ==
    IF toks = << >> \/ WordLoopError(<< Head(toks) >>, voc, probs) # "none"
    THEN << >>
    ELSE << Head(toks) >> \o TokensBeforeError(Tail(toks), voc, probs)

\* the word loop raised at token, after the tokens of done: the value it leaves
\* in log_p_tweet_given_<candidate>, which is 0.0 and the terms added so far.
\* trump's term of a token is added before hillary's probability is looked up.
LogPTweetGivenAtError(candidate, done, token, voc, probs) ==
    LET before == LogPTweetGiven(done, voc, probs[candidate])
    IN  IF /\ candidate = "trump"
           /\ token \in DOMAIN probs["trump"]
           /\ probs["trump"][token][1] > 0
        THEN Plus(before, log(probs["trump"][token]))
        ELSE before

\* p_hillary_given_tweet_denominator and p_trump_given_tweet_denominator:
\* the sum of the two numerators
PosteriorDenominator(numerator_hillary, numerator_trump) ==
    Plus(numerator_hillary, numerator_trump)

\* a faulty PTrumpGivenTweet: the denominator is trump's numerator alone
PTrumpGivenTweetOwnDenominator(numerator_hillary, numerator_trump) ==
    Minus(numerator_trump, numerator_trump)

\* p_trump_given_tweet = (log_prior_trump + log_p_tweet_given_trump)
\*                       - p_trump_given_tweet_denominator
PTrumpGivenTweet(numerator_hillary, numerator_trump) ==
    Minus(numerator_trump, PosteriorDenominator(numerator_hillary, numerator_trump))

\* p_hillary_given_tweet = (log_prior_hillary + log_p_tweet_given_hillary)
\*                         - p_hillary_given_tweet_denominator
PHillaryGivenTweet(numerator_hillary, numerator_trump) ==
    Minus(numerator_hillary, PosteriorDenominator(numerator_hillary, numerator_trump))

\* a faulty Decide: > in place of >=
DecideStrict(p_trump, p_hillary) ==
    IF Geq(p_trump, p_hillary) /\ ~Geq(p_hillary, p_trump) THEN "trump" ELSE "hillary"

\* if p_trump_given_tweet >= p_hillary_given_tweet: trump, else: hillary
Decide(p_trump, p_hillary) ==
    IF Geq(p_trump, p_hillary) THEN "trump" ELSE "hillary"

\* a faulty RecordOutcome: the key is (correct label, our guess)
RecordOutcomeSwapped(outs, choice, correct) ==
    [outs EXCEPT ![<< correct, choice >>] = @ + 1]

\* outcomes[(our guess, correct label)] += 1
RecordOutcome(outs, choice, correct) ==
    [outs EXCEPT ![<< choice, correct >>] = @ + 1]

\* the body of "for test_tweet, test_label in zip(test_data, test_labels)":
\* what it assigns
EvalLoopBody ==
    /\ pc = "eval"
    /\ error = "none"
    /\ test_line < MaxTestLines
    /\ test_line' = test_line + 1
    /\ \E test_tweet \in Tweets :
          LET toks == tokenize(test_tweet)
              probs == word_probabilities_per_candidate
              failure == WordLoopError(toks, vocabulary, probs)
              done == TokensBeforeError(toks, vocabulary, probs)
              log_t == LogPTweetGiven(toks, vocabulary, probs["trump"])
              log_h == LogPTweetGiven(toks, vocabulary, probs["hillary"])
          IN  /\ test_tokens' = toks
              /\ IF failure # "none"
                 THEN /\ error' = failure
                      /\ \E lab \in LabelLines : test_label' = lab
                      /\ log_p_tweet_given_trump' =
                            LogPTweetGivenAtError("trump", done, toks[Len(done) + 1],
                                                  vocabulary, probs)
                      /\ log_p_tweet_given_hillary' =
                            LogPTweetGivenAtError("hillary", done, toks[Len(done) + 1],
                                                  vocabulary, probs)
                      /\ UNCHANGED << p_trump_given_tweet, p_hillary_given_tweet,
                                      guess, outcomes >>
                 ELSE \E rounding \in
                          RoundingErrors(log_prior_trump, log_prior_hillary,
                                         LogTerms(toks, vocabulary, probs["trump"]),
                                         LogTerms(toks, vocabulary, probs["hillary"]),
                                         Plus(log_prior_trump, log_t).real,
                                         Plus(log_prior_hillary, log_h).real) :
                        LET numerator_t == Plus(log_prior_trump, log_t)
                            numerator_h ==
                                Rounded(Plus(log_prior_hillary, log_h), rounding)
                            p_t == PTrumpGivenTweet(numerator_h, numerator_t)
                            p_h == PHillaryGivenTweet(numerator_h, numerator_t)
                            choice == Decide(p_t, p_h)
                        IN  /\ log_p_tweet_given_trump' = log_t
                            /\ log_p_tweet_given_hillary' = log_h
                            /\ p_trump_given_tweet' = p_t
                            /\ p_hillary_given_tweet' = p_h
                            /\ guess' = choice
                            /\ \E lab \in LabelLines :
                                  /\ test_label' = lab
                                  /\ IF lab \in DOMAIN LABEL_MAP
                                     THEN /\ outcomes' = RecordOutcome(outcomes, choice,
                                                                       LABEL_MAP[lab])
                                          /\ error' = error
                                     ELSE /\ error' = "KeyError"
                                          /\ UNCHANGED outcomes

\* the words of toks entered into voc, as a loop that looked words up with
\* a default would
RECURSIVE WithWords(_, _)
WithWords(voc, toks) ==
    IF toks = << >> THEN voc
    ELSE WithWords(IF Head(toks) \in DOMAIN voc THEN voc ELSE Put(voc, Head(toks), 0),
                   Tail(toks))

\* a faulty EvalNextDoc: the test tweet's words are entered into the vocabulary
EvalNextDocEntersWords ==
    /\ EvalLoopBody
    /\ vocabulary' = WithWords(vocabulary, test_tokens')
    /\ UNCHANGED << pc, fit_runs, word_counts_per_candidate, total_tweet_count,
                    word_probabilities_per_candidate, train_locals, priors,
                    accuracy >>
    /\ UNCHANGED << sample_vars, processed >>

\* one pass of the loop: the tables are read, never written
EvalNextDoc ==
    /\ EvalLoopBody
    /\ UNCHANGED << pc, fit_runs, model, train_locals, priors, accuracy >>
    /\ UNCHANGED << sample_vars, processed >>

\* zip(test_data, test_labels) is exhausted, after any number of pairs up to
\* MaxTestLines: the cell ends
EvalDone ==
    /\ pc = "eval"
    /\ error = "none"
    /\ pc' = "evaluated"
    /\ UNCHANGED << error, fit_runs, model, train_locals, outcomes, priors,
                    test_line, eval_locals, accuracy >>
    /\ UNCHANGED << sample_vars, processed >>

\* ----------------------------------------------------------- cell 14: accuracy
\* accuracy = (outcomes[("hillary", "hillary")] + outcomes[("trump", "trump")])
\*            / sum(outcomes.values())
AccuracyCell ==
    /\ pc = "evaluated"
    /\ error = "none"
    /\ LET total == SumValues(outcomes)
       IN  IF total = 0
           THEN /\ error' = "ZeroDivisionError"
                /\ UNCHANGED << pc, accuracy >>
           ELSE /\ accuracy' = << outcomes[<< "hillary", "hillary" >>]
                                   + outcomes[<< "trump", "trump" >>], total >>
                /\ pc' = "done"
                /\ error' = error
    /\ UNCHANGED << fit_runs, model, train_locals, outcomes, priors, test_line,
                    eval_locals >>
    /\ UNCHANGED << sample_vars, processed >>

Next ==
    \/ SampleCell
    \/ RunTrainCell
    \/ TrainNextDoc
    \/ TrainWord
    \/ TrainDone
    \/ DeriveCell
    \/ RunEvalCell
    \/ EvalNextDoc
    \/ EvalDone
    \/ AccuracyCell

\* the notebook run once from top to bottom
Spec == Init /\ [][Next]_vars

\* ---------------------------------------------- cell 3 on any sample tweet
\* the characters of a sample tweet
SampleChars == {"a", "b", "H", "-", GraveAccent, " ", "\n", VerticalTab}

\* the sample tweets: every line of at most MaxSampleLen of these characters
SampleLines == UNION {[1..n -> SampleChars] : n \in 0..MaxSampleLen}

\* cell 3 on any sample tweet
AnySampleCell == \E tweet \in SampleLines : SampleCellOn(tweet)

\* cell 3 alone, with any sample tweet in the place of the notebook's
SpecSample == Init /\ [][AnySampleCell]_vars

\* cells 3, 4 and 9, the last two run up to MaxFits times on the same tables
NextRerun ==
    \/ SampleCell
    \/ RunTrainCell
    \/ TrainNextDoc
    \/ TrainWord
    \/ TrainDone
    \/ DeriveCell
    \/ RerunTrainCell

SpecRerun == Init /\ [][NextRerun]_vars

\* ===================================================================== claims
\* the training loop has ended and cell 9 has run
Fitted == pc \in {"trained", "eval", "evaluated", "done"}

\* the last pass of the prediction loop reached its decision
Predicted ==
    /\ pc = "eval"
    /\ guess # "none"
    /\ \/ error = "none"
       \/ error = "KeyError" /\ test_label \notin DOMAIN LABEL_MAP

\* the words of the last test tweet that the vocabulary holds
KnownTokens == SelectSeq(test_tokens, LAMBDA t : t \in DOMAIN vocabulary)

\* exp(logScore[c]) = prior[c] * product of WordProbability[c][t] over the known
\* tokens t of the test tweet, as numerator and denominator
RECURSIVE ScoreNumeratorOver(_, _)
ScoreNumeratorOver(c, toks) ==
    IF toks = << >> THEN total_tweet_count[c]
    ELSE word_probabilities_per_candidate[c][Head(toks)][1]
         * ScoreNumeratorOver(c, Tail(toks))

RECURSIVE ScoreDenominatorOver(_, _)
ScoreDenominatorOver(c, toks) ==
    IF toks = << >> THEN SumValues(total_tweet_count)
    ELSE word_probabilities_per_candidate[c][Head(toks)][2]
         * ScoreDenominatorOver(c, Tail(toks))

\* logScore[c] >= logScore[d]
ScoreAtLeast(c, d) ==
    ScoreNumeratorOver(c, KnownTokens) * ScoreDenominatorOver(d, KnownTokens)
        >= ScoreNumeratorOver(d, KnownTokens) * ScoreDenominatorOver(c, KnownTokens)

\* C1: every word of the vocabulary has a count in the table of both candidates,
\* each count is at least SMOOTHING, so no derived probability is 0 and the
\* prediction loop never takes the logarithm of 0.
C1_SmoothingInvariant ==
    /\ \A w \in DOMAIN vocabulary : \A c \in Candidates :
          /\ w \in DOMAIN word_counts_per_candidate[c]
          /\ word_counts_per_candidate[c][w] >= SMOOTHING
    /\ Fitted => \A c \in Candidates :
                    \A w \in DOMAIN word_probabilities_per_candidate[c] :
                        word_probabilities_per_candidate[c][w][1] > 0
    /\ ~(pc = "eval" /\ error = "ValueError")

\* a test tweet was scored with a word that only hillary tweets held, so trump's
\* count of it is the smoothing count alone
C1_Witness ==
    /\ Predicted
    /\ \E i \in DOMAIN test_tokens :
          /\ test_tokens[i] \in DOMAIN vocabulary
          /\ word_counts_per_candidate["trump"][test_tokens[i]] = SMOOTHING
          /\ word_counts_per_candidate["hillary"][test_tokens[i]] > SMOOTHING

\* C2: the class the code picks by comparing p_trump_given_tweet with
\* p_hillary_given_tweet is an argmax of logScore = logPrior + sum of
\* log(WordProbability) over the known tokens: no other class has a larger
\* score, and the comparison of the two normalized values comes out as the
\* comparison of the two numerators does.
C2_DecisionIsArgmax ==
    Predicted =>
        /\ guess = "trump" => ScoreAtLeast("trump", "hillary")
        /\ guess = "hillary" => ScoreAtLeast("hillary", "trump")
        /\ LET numerator_t == Rounded(Plus(log_prior_trump, log_p_tweet_given_trump),
                                      0 - p_hillary_given_tweet.err)
               numerator_h == Rounded(Plus(log_prior_hillary, log_p_tweet_given_hillary),
                                      0 - p_trump_given_tweet.err)
           IN  guess = "trump" <=> Geq(numerator_t, numerator_h)

\* the words of a tweet overturned the prior: hillary is picked although trump
\* has more training tweets
C2_Witness ==
    /\ Predicted
    /\ guess = "hillary"
    /\ KnownTokens # << >>
    /\ total_tweet_count["trump"] > total_tweet_count["hillary"]

\* the two scores are the same real number
ScoresTie == ScoreAtLeast("trump", "hillary") /\ ScoreAtLeast("hillary", "trump")

\* C3: when the two computed scores are equal the code picks by its fixed order
\* of the candidates, trump before hillary, whatever the training data was; and
\* two scores that tie and were computed from the same operands are equal.
C3_EqualFloatsGoToTrump ==
    Predicted =>
        /\ p_trump_given_tweet = p_hillary_given_tweet => guess = "trump"
        /\ (/\ ScoresTie
            /\ log_prior_trump = log_prior_hillary
            /\ SameSum(LogTerms(test_tokens, vocabulary,
                                word_probabilities_per_candidate["trump"]),
                       LogTerms(test_tokens, vocabulary,
                                word_probabilities_per_candidate["hillary"])))
              => p_trump_given_tweet = p_hillary_given_tweet

\* a tie on a tweet with known words, after a training whose last tweet was
\* hillary's: the two values are the same float
C3_Witness ==
    /\ Predicted
    /\ KnownTokens # << >>
    /\ ScoresTie
    /\ p_trump_given_tweet = p_hillary_given_tweet
    /\ label = "0\n"
    /\ guess = "trump"

\* C4: a test tweet none of whose words is in the vocabulary (a tweet with no
\* words included) raises nothing, adds nothing to either score and gets the
\* candidate with more training tweets.
C4_UnknownWordsLeaveThePrior ==
    /\ (pc = "eval" /\ KnownTokens = << >>) => error \notin {"ValueError", "ZeroDivisionError"}
    /\ (pc = "eval" /\ KnownTokens = << >> /\ error = "KeyError")
          => test_label \notin DOMAIN LABEL_MAP
    /\ (Predicted /\ KnownTokens = << >>) =>
          /\ log_p_tweet_given_trump = Zero
          /\ log_p_tweet_given_hillary = Zero
          /\ \A c \in Candidates :
                (\A d \in Candidates \ {c} : total_tweet_count[c] > total_tweet_count[d])
                    => guess = c

\* a tweet of unknown words only was given to hillary, who has more tweets,
\* by a model that knows other words
C4_Witness ==
    /\ Predicted
    /\ test_tokens # << >>
    /\ KnownTokens = << >>
    /\ vocabulary # EmptyDict
    /\ total_tweet_count["hillary"] > total_tweet_count["trump"]
    /\ guess = "hillary"

\* C5: no step of the evaluation (the priors, a pass of the prediction loop, the
\* end of the loop, the accuracy) changes vocabulary, word_counts_per_candidate,
\* total_tweet_count or word_probabilities_per_candidate.
C5_EvaluationKeepsTheModel ==
    [][(pc \in {"trained", "eval", "evaluated"} /\ pc' # "train")
          => model' = model]_vars

\* two test tweets were classified, one of them with a word the model had not seen
C5_Witness ==
    /\ pc = "evaluated"
    /\ outcomes # Unbound
    /\ SumValues(outcomes) >= 2
    /\ vocabulary # EmptyDict
    /\ \E i \in DOMAIN test_tokens : test_tokens[i] \notin DOMAIN vocabulary

\* C6: after the fit the probability table has an entry for both candidates and
\* exactly the words of the vocabulary, each equal to
\* count / (total_tweet_count[candidate] + 2).
C6_ProbabilityTable ==
    Fitted =>
        /\ DOMAIN word_probabilities_per_candidate = Candidates
        /\ \A c \in Candidates :
              /\ DOMAIN word_probabilities_per_candidate[c] = DOMAIN vocabulary
              /\ \A w \in DOMAIN vocabulary :
                    LET prob == word_probabilities_per_candidate[c][w]
                    IN  /\ prob[2] > 0
                        /\ prob[1] * (total_tweet_count[c] + 2 * SMOOTHING)
                              = word_counts_per_candidate[c][w] * prob[2]

\* a table derived from unequal candidates and a word counted more than once
C6_Witness ==
    /\ pc = "trained"
    /\ total_tweet_count["trump"] > total_tweet_count["hillary"]
    /\ total_tweet_count["hillary"] > 0
    /\ \E w \in DOMAIN vocabulary : word_counts_per_candidate["hillary"][w] > 1 + SMOOTHING

\* C7: a training set that is empty or lacks a candidate makes the fit fail, so
\* that no fit completes with a candidate of 0 tweets and the priors are never
\* computed from one.
C7_FitRejectsMissingClass ==
    /\ pc \notin {"idle", "sampled", "train"} => \A c \in Candidates : total_tweet_count[c] > 0
    /\ ~(pc = "trained" /\ error \in {"ZeroDivisionError", "ValueError"})

\* C8: a fit that fails leaves the tables as they were before it started: for
\* the first fit, as cell 2 built them.
C8_FailedFitLeavesNothing ==
    (pc = "train" /\ error # "none" /\ fit_runs = 1) =>
        /\ vocabulary = EmptyDict
        /\ word_counts_per_candidate = [c \in Candidates |-> EmptyDict]
        /\ total_tweet_count = [c \in Candidates |-> 0]

\* C9: a fit on a trained model is rejected or starts from empty tables: when a
\* fit has completed, the tables count the tweets of that fit and no others.
C9_RefitDoesNotAccumulate ==
    (pc = "trained" /\ error = "none") => SumValues(total_tweet_count) = line

\* C10: training files of different lengths make the fit fail: no fit
\* completes on them.
C10_LengthMismatchRejected ==
    (data_lines # label_lines) => pc \in {"idle", "sampled", "train"}

\* C11: a pass of the prediction loop that raises nothing adds 1 to the
\* outcomes cell (guess, correct label) and changes no other cell; so the four
\* cells sum to the number of test tweets read, and the accuracy cell yields
\* (sum of the two diagonal cells) / (that number): 1 when no tweet was
\* misclassified, 0 when every tweet was.
C11_OutcomesAndAccuracy ==
    [][/\ (pc = "eval" /\ pc' = "eval" /\ error' = "none") =>
             /\ test_line' = test_line + 1
             /\ test_label' \in DOMAIN LABEL_MAP
             /\ LET cell == << guess', LABEL_MAP[test_label'] >>
                IN  /\ outcomes'[cell] = outcomes[cell] + 1
                    /\ \A k \in (DOMAIN outcomes) \ {cell} : outcomes'[k] = outcomes[k]
       /\ (pc' \in {"eval", "evaluated", "done"} /\ error' = "none") =>
             /\ DOMAIN outcomes' = Candidates \X Candidates
             /\ SumValues(outcomes') = test_line'
       /\ pc' = "done" =>
             LET right == outcomes'[<< "hillary", "hillary" >>]
                              + outcomes'[<< "trump", "trump" >>]
                 wrong == outcomes'[<< "hillary", "trump" >>]
                              + outcomes'[<< "trump", "hillary" >>]
             IN  /\ accuracy' = << right, test_line' >>
                 /\ test_line' > 0
                 /\ wrong = 0 => accuracy'[1] = accuracy'[2]
                 /\ right = 0 => accuracy'[1] = 0
      ]_vars

\* two test tweets labelled hillary, one guessed right and one guessed trump:
\* the accuracy is 1/2
C11_Witness ==
    /\ pc = "done"
    /\ outcomes[<< "hillary", "hillary" >>] = 1
    /\ outcomes[<< "trump", "hillary" >>] = 1
    /\ accuracy = << 1, 2 >>


\* ---------------------------------------------------------------- C12
\* the sample cell has run
Sampled == pc = "sampled"

\* the tokens written one after the other
RECURSIVE Concat(_)
Concat(toks) ==
    IF toks = << >> THEN << >> ELSE Head(toks) \o Concat(Tail(toks))

\* the letters and digits of a line, in lower case
LettersOf(text) ==
    LET kept == SelectSeq(text, LAMBDA c : c \notin Punctuation \cup Whitespace)
    IN  [i \in 1..Len(kept) |-> LowerChar(kept[i])]

\* the maximal runs of letters and digits of a line, when punctuation and
\* whitespace both separate.  inrun: the character before was a letter or digit.
RECURSIVE WordRuns(_, _)
WordRuns(text, inrun) ==
    IF text = << >> THEN 0
    ELSE IF Head(text) \in Punctuation \cup Whitespace
         THEN WordRuns(Tail(text), FALSE)
         ELSE (IF inrun THEN 0 ELSE 1) + WordRuns(Tail(text), TRUE)

\* the maximal whitespace-free runs of a line that hold a letter or digit.
\* seen: the run being read holds one already.
RECURSIVE WhitespaceRuns(_, _)
WhitespaceRuns(text, seen) ==
    IF text = << >> THEN (IF seen THEN 1 ELSE 0)
    ELSE IF Head(text) \in Whitespace
         THEN (IF seen THEN 1 ELSE 0) + WhitespaceRuns(Tail(text), FALSE)
         ELSE WhitespaceRuns(Tail(text), seen \/ Head(text) \notin Punctuation)

\* every token is non-empty, lower case and free of punctuation
TokensWellFormed(toks) ==
    \A i \in 1..Len(toks) :
        /\ toks[i] # << >>
        /\ \A j \in 1..Len(toks[i]) :
              toks[i][j] \notin Punctuation \cup Whitespace \cup UpperCaseChars

\* C12 as stated: tokenize treats punctuation between word characters as a
\* token separator: tokenize("a--b") = ["a","b"], two runs of word characters
\* separated only by punctuation yield two tokens, and every token is
\* non-empty, lower case and free of punctuation.
C12_PunctuationSeparates ==
    Sampled =>
        /\ sample_tweet = << "a", "-", "-", "b" >> =>
                sample_tokens = << << "a" >>, << "b" >> >>
        /\ Len(sample_tokens) = WordRuns(sample_tweet, FALSE)
        /\ TokensWellFormed(sample_tokens)

\* C12 amended: tokenize deletes punctuation, so that whitespace alone
\* separates tokens: tokenize("a--b") = ["ab"]; the tokens are as many as the
\* whitespace-separated runs of the line that hold a letter or digit, written
\* one after the other they are the line's letters and digits in lower case,
\* and every token is non-empty, lower case and free of punctuation.
C12_PunctuationIsDeleted ==
    Sampled =>
        /\ sample_tweet = << "a", "-", "-", "b" >> =>
                sample_tokens = << << "a", "b" >> >>
        /\ sample_tweet = << "H", "-", " ", "b" >> =>
                sample_tokens = << << "h" >>, << "b" >> >>
        /\ sample_tweet = << "a", GraveAccent, "b" >> =>
                sample_tokens = << << "a", "b" >> >>
        /\ sample_tweet = << VerticalTab, "a", VerticalTab, "b" >> =>
                sample_tokens = << << "a" >>, << "b" >> >>
        /\ Len(sample_tokens) = WhitespaceRuns(sample_tweet, FALSE)
        /\ Concat(sample_tokens) = LettersOf(sample_tweet)
        /\ TokensWellFormed(sample_tokens)

C12_Witness ==
    /\ Sampled
    /\ sample_tweet = << "a", "-", "-", "b" >>
    /\ sample_tokens = << << "a", "b" >> >>

\* ---------------------------------------------------------------- C13
\* the words the data files can hold
AllTokens ==
    UNION {LET toks == tokenize(t) IN {toks[i] : i \in 1..Len(toks)} : t \in Tweets}

\* how often word t stands in a list of tokens
Occurrences(t, toks) == Cardinality({i \in 1..Len(toks) : toks[i] = t})

\* the (tweet, label) pairs of class c that the loop has taken
DocsOf(c) ==
    {doc \in DOMAIN processed : processed[doc] > 0 /\ LABEL_MAP[doc[2]] = c}

\* the class-c documents the loop has taken so far
DocumentsTaken(c) == SumOver(processed, DocsOf(c))

\* the occurrences of t in the class-c documents the loop has taken so far
OccurrencesTaken(c, t) ==
    SumOver([doc \in DocsOf(c) |->
                processed[doc] * Occurrences(t, tokenize(doc[1]))], DocsOf(c))

\* the occurrences of t in the class-c document being read that the word loop
\* has not reached yet
OccurrencesPending(c, t) ==
    IF tokens # << >> /\ LABEL_MAP[label] = c THEN Occurrences(t, tokens) ELSE 0

\* the occurrences of t the word loop has gone through, in class-c documents
OccurrencesCounted(c, t) == OccurrencesTaken(c, t) - OccurrencesPending(c, t)

\* C13: the training loop counts every token occurrence separately: at any
\* point of the loop, WordCounts[c][t] = smoothing + the occurrences of t in
\* the class-c documents processed so far, Vocabulary[t] = 2 x smoothing + the
\* occurrences of t in all documents processed so far (the sum of the two
\* WordCounts), a word that never occurred is in no table, and
\* ClassDocumentCount[c] = the class-c documents processed, empty ones included.
C13_EveryOccurrenceCounted ==
    /\ \A c \in Candidates :
          /\ total_tweet_count[c] = DocumentsTaken(c)
          /\ DOMAIN word_counts_per_candidate[c] = DOMAIN vocabulary
    /\ \A t \in AllTokens :
          LET counted == [c \in Candidates |-> OccurrencesCounted(c, t)]
          IN  IF t \in DOMAIN vocabulary
              THEN /\ \A c \in Candidates :
                         word_counts_per_candidate[c][t] = SMOOTHING + counted[c]
                   /\ vocabulary[t] =
                         2 * SMOOTHING + counted["hillary"] + counted["trump"]
                   /\ vocabulary[t] = word_counts_per_candidate["hillary"][t]
                                       + word_counts_per_candidate["trump"][t]
              ELSE \A c \in Candidates : counted[c] = 0

\* a tweet that repeats a word and a tweet with no word, both of one class, have
\* been processed: the word counts 2 for the one and the class 2 documents
C13_Witness ==
    /\ pc = "train"
    /\ error = "none"
    /\ tokens = << >>
    /\ processed[<< << "A", ",", " ", "a", "!", "\n" >>, "0\n" >>] = 1
    /\ processed[<< << "\n" >>, "0\n" >>] = 1
    /\ DocumentsTaken("trump") = 0
    /\ word_counts_per_candidate["hillary"][<< "a" >>] = SMOOTHING + 2
    /\ word_counts_per_candidate["trump"][<< "a" >>] = SMOOTHING
    /\ vocabulary[<< "a" >>] = 2 * SMOOTHING + 2
    /\ total_tweet_count["hillary"] = 2

\* ---------------------------------------------------------------- C14
\* C14: every derived word probability is a valid probability: for every
\* candidate c and every word t of the vocabulary, 0 < WordProbability[c][t] <= 1,
\* that is, WordCounts[c][t] <= ClassDocumentCount[c] + 2, whatever the
\* training set, a word that occurs several times in one tweet included.
C14_ProbabilitiesAtMostOne ==
    Fitted =>
        \A c \in Candidates :
            \A t \in DOMAIN word_probabilities_per_candidate[c] :
                LET prob == word_probabilities_per_candidate[c][t]
                IN  /\ 0 < prob[1]
                    /\ prob[1] <= prob[2]
                    /\ word_counts_per_candidate[c][t] <= total_tweet_count[c] + 2
=============================================================================
